---- MODULE Spec2Model ----
(***************************************************************************)
(* Freight-audit server (server.ts) and the contest dialog of its client   *)
(* (App.tsx) as a state machine over the SQLite store.                     *)
(*                                                                         *)
(* Units.  Money is counted in thousandths of a currency unit (0.01 is     *)
(* 10), weight in tenths of a kilogram (1000 kg is 10000), and a per-kg    *)
(* rate in thousandths per tenth of a kilogram (0.50 per kg is 50), so     *)
(* that base + (weight - min) * rate is exact.  A JavaScript number is a   *)
(* record [k, v]: a finite value, an infinity with its sign, or NaN.       *)
(* Rounding of binary floating point is not modelled.                      *)
(***************************************************************************)
EXTENDS Integers, Sequences, FiniteSets, TLC

VARIABLES
  tenants,        \* ids of the rows of table tenants
  carriers,       \* table carriers, row i has id i
  freight_tables, \* table freight_tables
  weight_ranges,  \* table weight_ranges
  ctes,           \* table ctes, row i has id i
  audits,         \* table audits, row i has id i
  last,           \* the last request served: its inputs, the locals of its
                  \* handler and its response
  batch,          \* the POST /api/upload-batch request being served
  table_imports,  \* table table_imports, row i has id i
  import_errors,  \* table import_errors, row i has id i
  memory_calculations, \* table memory_calculations, row i has id i
  db,             \* the handle of the store after the initialization block
  waiting         \* a second POST /api/upload-batch request, suspended at an
                  \* await while the request of batch runs

importTables == <<table_imports, import_errors, memory_calculations>>

vars == <<tenants, carriers, freight_tables, weight_ranges, ctes, audits, last,
          batch, importTables, db, waiting>>

(***************************************************************************)
(* Bounds of the model.                                                    *)
(***************************************************************************)
MaxKeys == 2        \* document keys uploaded to the whole server
MaxAuditKeys == 1   \* document keys uploaded to the audit pipeline alone
MaxCarriers == 2    \* rows of table carriers
MaxAuditId == 3     \* audit ids a request may name (one of them never exists)
MaxImports == 2     \* rows of table table_imports
MaxBatchKeys == 3   \* document keys uploaded in batches

(***************************************************************************)
(* SQL NULL, and JavaScript undefined as a request field.                  *)
(***************************************************************************)
Null == "NULL"
Undefined == "undefined"

(***************************************************************************)
(* JavaScript numbers.                                                     *)
(***************************************************************************)
Fin(n) == [k |-> "fin", v |-> n]
PosInf == [k |-> "inf", v |-> 1]
NaN == [k |-> "nan", v |-> 0]

\* a - b
NumSub(a, b) ==
  IF a.k = "nan" \/ b.k = "nan" THEN NaN
  ELSE IF a.k = "fin" /\ b.k = "fin" THEN Fin(a.v - b.v)
  ELSE IF a.k = "inf" /\ b.k = "inf" THEN (IF a.v = b.v THEN NaN ELSE a)
  ELSE IF a.k = "inf" THEN a
  ELSE [k |-> "inf", v |-> 0 - b.v]

\* Math.abs(x) > t, for a finite t >= 0
NumAbsGt(x, t) ==
  CASE x.k = "nan" -> FALSE
    [] x.k = "inf" -> TRUE
    [] OTHER -> (IF x.v < 0 THEN 0 - x.v ELSE x.v) > t

\* SQL: w BETWEEN lo AND hi, for finite lo and hi and a REAL w that is not NULL
NumBetween(w, lo, hi) == w.k = "fin" /\ lo <= w.v /\ w.v <= hi

\* A REAL bound to a statement: SQLite stores NaN as NULL.
BindsNull(x) == x.k = "nan"

(***************************************************************************)
(* The text of a numeric field of the document, and parseFloat(f || "0").  *)
(***************************************************************************)
RawAbsent == [t |-> "absent", n |-> 0]
RawNum(n) == [t |-> "num", n |-> n]
RawText == [t |-> "text", n |-> 0]
RawInfinity == [t |-> "infinity", n |-> 0]

ParseFloatOr0(raw) ==
  CASE raw.t = "absent" -> Fin(0)
    [] raw.t = "num" -> Fin(raw.n)
    [] raw.t = "infinity" -> PosInf
    [] OTHER -> NaN

(***************************************************************************)
(* The store after initialization (schema and seed rows).                  *)
(***************************************************************************)
SeedCnpj == "35856333000100"
OtherCnpj == "11222333000181"

SeedCarriers == <<[id |-> 1, tenant_id |-> 1, cnpj |-> SeedCnpj]>>

SeedTables == {[id |-> 1, tenant_id |-> 1, carrier_id |-> 1, is_active |-> 1]}

SeedRanges ==
  { [id |-> 1, table_id |-> 1, min_weight |-> 0, max_weight |-> 10000,
     base_value |-> 500000, kg_extra_value |-> 50],
    [id |-> 2, table_id |-> 1, min_weight |-> 10000, max_weight |-> 100000,
     base_value |-> 2500000, kg_extra_value |-> 35],
    [id |-> 3, table_id |-> 1, min_weight |-> 100000, max_weight |-> 500000,
     base_value |-> 5000000, kg_extra_value |-> 25] }

NoLast ==
  [op |-> "none", key |-> 0, outcome |-> "none", msg |-> "", cteId |-> 0,
   carrier |-> 0, table |-> 0, band |-> 0, auditId |-> 0, reason |-> Null,
   prev |-> Null, files |-> <<>>, results |-> <<>>]

\* no upload-batch request is being served
NoBatch ==
  [pc |-> "idle", request |-> <<>>, files |-> <<>>, zip |-> "",
   entries |-> <<>>, results |-> <<>>, processedCount |-> 0,
   errorCount |-> 0, done |-> <<>>]

Init ==
  /\ tenants = {1}
  /\ carriers = SeedCarriers
  /\ freight_tables = SeedTables
  /\ weight_ranges = SeedRanges
  /\ ctes = <<>>
  /\ audits = <<>>
  /\ last = NoLast
  /\ batch = NoBatch
  /\ table_imports = <<>>
  /\ import_errors = <<>>
  /\ memory_calculations = <<>>
  /\ db = "ready"
  /\ waiting = NoBatch

(***************************************************************************)
(* Documents: the fields processXml reads from the parsed tree.  Id is the *)
(* document key with its prefix stripped (0: absent), a tax id is "" when  *)
(* its tag is absent, toma is the type code ("": absent or another code).  *)
(***************************************************************************)
Keys == 1..MaxKeys
AuditKeys == 1..MaxAuditKeys

Doc(key, cnpj, total, weight, toma, rem, dest) ==
  [infCte |-> TRUE, Id |-> key, emitCNPJ |-> cnpj, vTPrest |-> total,
   qCarga |-> weight, toma |-> toma, remCNPJ |-> rem, destCNPJ |-> dest]

\* <<declared total, gross weight>> of the documents of the seeded carrier
SeedCases ==
  { <<RawNum(500000), RawNum(0)>>,        \* 500.00 declared, 500.00 expected
    <<RawNum(500010), RawAbsent>>,        \* one cent above, no weight given
    <<RawNum(500011), RawNum(0)>>,        \* more than one cent above
    <<RawNum(1000000), RawNum(10000)>>,   \* 1000 kg: on the edge of two ranges
    <<RawNum(2500350), RawNum(10010)>>,   \* 1001 kg: 2500.00 + 1 kg at 0.35
    <<RawNum(500000), RawNum(600000)>>,   \* 60000 kg: in no range
    <<RawInfinity, RawNum(600000)>>,
    <<RawInfinity, RawNum(0)>>,
    <<RawText, RawNum(0)>>,
    <<RawNum(500000), RawText>> }

OtherCases == { <<RawNum(500000), RawNum(0)>>, <<RawInfinity, RawNum(0)>> }

\* the documents uploaded to the audit pipeline
Docs ==
  UNION { { Doc(k, SeedCnpj, c[1], c[2], "0", "REM", "DEST") : c \in SeedCases }
          \cup { Doc(k, OtherCnpj, c[1], c[2], "", "REM", "") : c \in OtherCases }
          \cup { Doc(k, SeedCnpj, RawNum(500000), RawNum(0), "3", "REM", "DEST"),
                 Doc(k, SeedCnpj, RawNum(500000), RawNum(0), "3", "REM", ""),
                 Doc(k, SeedCnpj, RawNum(500000), RawNum(0), "", "", "DEST"),
                 Doc(k, "", RawNum(500000), RawNum(0), "0", "REM", "DEST") }
          : k \in AuditKeys }
  \cup { Doc(0, SeedCnpj, RawNum(500000), RawNum(0), "0", "REM", "DEST"),
         [Doc(1, SeedCnpj, RawNum(500000), RawNum(0), "0", "REM", "DEST")
            EXCEPT !.infCte = FALSE] }

\* the documents uploaded to the whole server
CoreDocs ==
  UNION { { Doc(k, SeedCnpj, RawNum(500011), RawNum(0), "0", "REM", "DEST"),
            Doc(k, OtherCnpj, RawInfinity, RawNum(0), "0", "REM", "DEST"),
            Doc(k, SeedCnpj, RawNum(500000), RawNum(0), "0", "", "DEST") }
          : k \in Keys }

(***************************************************************************)
(* processXml                                                              *)
(***************************************************************************)
\* a variant of TomadorCnpj that takes the sender for every type code
TomadorCnpjSender(doc) == doc.remCNPJ

\* tomadorCnpjValue (lines 264-270)
TomadorCnpj(doc) ==
  IF doc.toma = "0" THEN doc.remCNPJ
  ELSE IF doc.toma = "3" THEN doc.destCNPJ
  ELSE doc.remCNPJ

\* statement.get(): the first row of a SELECT without ORDER BY, whose order
\* SQL leaves unspecified; 0 stands for no row.
GetRow(rows) == IF rows = {} THEN {0} ELSE rows

CarrierRows(cnpj) == { i \in DOMAIN carriers : carriers[i].cnpj = cnpj }

TableRows(tenantId, carrierId) ==
  { t.id : t \in { x \in freight_tables :
                     /\ x.tenant_id = tenantId
                     /\ x.carrier_id = carrierId
                     /\ x.is_active = 1 } }

RangeRows(tableId, weight) ==
  { r.id : r \in { x \in weight_ranges :
                     /\ x.table_id = tableId
                     /\ NumBetween(weight, x.min_weight, x.max_weight) } }

RangeById(id) == CHOOSE r \in weight_ranges : r.id = id

\* the <<carrier, table, weightRange>> ids the three lookups may return
Resolutions(carrierCnpj, tenantId, weight) ==
  UNION { UNION { { <<c, t, b>> :
                    b \in (IF t = 0 THEN {0} ELSE GetRow(RangeRows(t, weight))) } :
                  t \in (IF c = 0 THEN {0} ELSE GetRow(TableRows(tenantId, c))) } :
          c \in GetRow(CarrierRows(carrierCnpj)) }

\* a variant of Calculated that charges the rate on the whole weight
CalculatedFromZero(weightRange, weight) ==
  IF weightRange.kg_extra_value > 0 /\ weight.v > weightRange.min_weight
  THEN Fin(weightRange.base_value + weight.v * weightRange.kg_extra_value)
  ELSE Fin(weightRange.base_value)

\* the charge of a matched weight range (lines 295-298)
Calculated(weightRange, weight) ==
  IF weightRange.kg_extra_value > 0 /\ weight.v > weightRange.min_weight
  THEN Fin(weightRange.base_value
           + (weight.v - weightRange.min_weight) * weightRange.kg_extra_value)
  ELSE Fin(weightRange.base_value)

Tolerance == 10

\* a variant of Expected that falls back to 0 when no table was found
ExpectedNoFallback(table, band, totalValue, weight) ==
  IF table # 0
  THEN (IF band # 0 THEN Calculated(RangeById(band), weight) ELSE totalValue)
  ELSE Fin(0)

\* calculated, by the table and the weight range found (0: none)
Expected(table, band, totalValue, weight) ==
  IF table # 0
  THEN (IF band # 0 THEN Calculated(RangeById(band), weight) ELSE totalValue)
  ELSE totalValue

\* a variant of Structural that reports a missing range as table_error
StructuralAlwaysTable(table, band) ==
  IF table # 0 /\ band # 0 THEN Null ELSE "table_error"

\* divergenceType before the comparison
Structural(table, band) ==
  IF table # 0
  THEN (IF band # 0 THEN Null ELSE "weight_error")
  ELSE "table_error"

\* a variant of Classify whose tolerance excludes a difference of one cent
ClassifyFromOneCent(diff, divergenceType) ==
  IF NumAbsGt(diff, Tolerance - 1)
  THEN (IF divergenceType # Null THEN divergenceType ELSE "value_divergence")
  ELSE divergenceType

\* divergenceType after the comparison with the tolerance
Classify(diff, divergenceType) ==
  IF NumAbsGt(diff, Tolerance)
  THEN (IF divergenceType # Null THEN divergenceType ELSE "value_divergence")
  ELSE divergenceType

CteRow(id, tenantId, xmlKey, carrierCnpj, tomadorCnpj, totalValue, weight) ==
  [id |-> id, tenant_id |-> tenantId, xml_key |-> xmlKey,
   carrier_cnpj |-> carrierCnpj, tomador_cnpj |-> tomadorCnpj,
   total_value |-> totalValue, weight |-> weight, status |-> "audited"]

\* a variant of AuditRow that leaves the status out of the lifecycle
AuditRowPending(id, cteId, calculated, diff, divergenceType) ==
  [id |-> id, cte_id |-> cteId, calculated_value |-> calculated,
   difference |-> diff, divergence_type |-> divergenceType,
   status |-> "pending", contestation_reason |-> Null]

\* the row of INSERT INTO audits: status and contestation_reason by default
AuditRow(id, cteId, calculated, diff, divergenceType) ==
  [id |-> id, cte_id |-> cteId, calculated_value |-> calculated,
   difference |-> diff, divergence_type |-> divergenceType,
   status |-> "open", contestation_reason |-> Null]

\* a variant of Thrown that leaves a shipment row behind in every case
ThrownAfterInsert(xmlKey, msg, newCtes, cteId) ==
  [ctes |-> IF newCtes = ctes
            THEN Append(ctes, CteRow(Len(ctes) + 1, 1, xmlKey, "", "", Fin(0),
                                     Fin(0)))
            ELSE newCtes,
   audits |-> audits,
   last |-> [NoLast EXCEPT !.op = "upload", !.key = xmlKey, !.outcome = "error",
                           !.msg = msg, !.cteId = cteId]]

\* what a call leaves behind: the two tables and the record of the call
Thrown(xmlKey, msg, newCtes, cteId) ==
  [ctes |-> newCtes, audits |-> audits,
   last |-> [NoLast EXCEPT !.op = "upload", !.key = xmlKey, !.outcome = "error",
                           !.msg = msg, !.cteId = cteId]]

AlreadyImported(xmlKey) ==
  [ctes |-> ctes, audits |-> audits,
   last |-> [NoLast EXCEPT !.op = "upload", !.key = xmlKey,
               !.outcome = "duplicate", !.msg = "CT-e ja importado."]]

\* lines 286-318, after the shipment row was inserted
AuditShipment(xmlKey, newCtes, cteId, totalValue, weight, res) ==
  LET table == res[2]
      band == res[3]
      calculated == Expected(table, band, totalValue, weight)
      structural == Structural(table, band)
      diff == NumSub(totalValue, calculated)
      divergenceType == Classify(diff, structural)
  IN IF BindsNull(calculated) \/ BindsNull(diff)
     THEN Thrown(xmlKey, "NOT NULL constraint failed: audits", newCtes, cteId)
     ELSE [ctes |-> newCtes,
           audits |-> Append(audits, AuditRow(Len(audits) + 1, cteId, calculated,
                                              diff, divergenceType)),
           last |-> [NoLast EXCEPT !.op = "upload", !.key = xmlKey,
                       !.outcome = "success", !.cteId = cteId,
                       !.carrier = res[1], !.table = res[2], !.band = res[3],
                       !.auditId = Len(audits) + 1]]

\* the outcomes of processXml(doc, tenantId) in the current store
ProcessXml(doc, tenantId) ==
  LET xmlKey == doc.Id
      carrierCnpj == doc.emitCNPJ
      totalValue == ParseFloatOr0(doc.vTPrest)
      weight == ParseFloatOr0(doc.qCarga)
      tomadorCnpjValue == TomadorCnpj(doc)
      cteId == Len(ctes) + 1
      newCtes == Append(ctes, CteRow(cteId, tenantId, xmlKey, carrierCnpj,
                                     tomadorCnpjValue, totalValue, weight))
  IN IF ~doc.infCte
       THEN {Thrown(0, "infCte nao encontrado", ctes, 0)}
     ELSE IF xmlKey = 0
       THEN {Thrown(0, "Chave do CT-e nao encontrada", ctes, 0)}
     ELSE IF \E i \in DOMAIN ctes : ctes[i].xml_key = xmlKey
       THEN {AlreadyImported(xmlKey)}
     ELSE IF carrierCnpj = ""
       THEN {Thrown(xmlKey, "CNPJ do transportador nao encontrado", ctes, 0)}
     ELSE IF tomadorCnpjValue = ""
       THEN {Thrown(xmlKey, "CNPJ do tomador nao determinado", ctes, 0)}
     ELSE IF BindsNull(totalValue) \/ BindsNull(weight)
       THEN {Thrown(xmlKey, "NOT NULL constraint failed: ctes", ctes, 0)}
     ELSE { AuditShipment(xmlKey, newCtes, cteId, totalValue, weight, res) :
              res \in Resolutions(carrierCnpj, tenantId, weight) }

(***************************************************************************)
(* POST /api/upload-batch with one XML file: processXml for the default    *)
(* tenant, a thrown error caught and reported as a failed outcome.         *)
(***************************************************************************)
UploadXml(doc) ==
  /\ \E r \in ProcessXml(doc, 1) :
       /\ ctes' = r.ctes
       /\ audits' = r.audits
       /\ last' = r.last
  /\ UNCHANGED <<tenants, carriers, freight_tables, weight_ranges, batch,
                 importTables,
                 db, waiting>>

(***************************************************************************)
(* POST /api/upload-batch with several files and archives.  The handler is *)
(* asynchronous: it is modelled one document at a time, batch holding the  *)
(* locals of the request being served (the files and the archive entries   *)
(* still to come, results, processedCount, errorCount) and, in done, the   *)
(* history of what was handled.  A file name is a base and an extension.   *)
(***************************************************************************)
BatchKeys == 1..MaxBatchKeys

FileName(base, ext) == [base |-> base, ext |-> ext]

\* filename.toLowerCase() of an extension
ToLowerCase(ext) == IF ext = "XML" THEN "xml" ELSE ext

ValidDoc(k) == Doc(k, SeedCnpj, RawNum(500000), RawNum(0), "0", "REM", "DEST")

MalformedDoc == [ValidDoc(1) EXCEPT !.infCte = FALSE]

\* stored as a shipment, then refused by the INSERT of the audit
InfinityDoc == Doc(2, OtherCnpj, RawInfinity, RawNum(0), "0", "REM", "DEST")

\* an entry of an archive; async('string') rejects when it is not readable
ZipEntry(name, readable, doc) == [name |-> name, readable |-> readable, doc |-> doc]

UploadedFile(name, mimetype, loadable, doc, entries) ==
  [originalname |-> name, mimetype |-> mimetype, loadable |-> loadable,
   doc |-> doc, entries |-> entries]

XmlFile(base, doc) ==
  UploadedFile(FileName(base, "xml"), "text/xml", TRUE, doc, <<>>)

\* an archive; JSZip.loadAsync rejects when it is not loadable
ZipFile(base, loadable, entries) ==
  UploadedFile(FileName(base, "zip"), "application/zip", loadable,
               MalformedDoc, entries)

\* the archive of a valid document for every key, with a malformed document
\* in second place
FullArchive ==
  ZipFile("all", TRUE,
          [i \in 1..(MaxBatchKeys + 1) |->
             IF i = 1 THEN ZipEntry(FileName("d1", "xml"), TRUE, ValidDoc(1))
             ELSE IF i = 2 THEN ZipEntry(FileName("bad", "xml"), TRUE, MalformedDoc)
             ELSE ZipEntry(FileName("d", "xml"), TRUE, ValidDoc(i - 1))])

BatchFiles ==
  { XmlFile("a", ValidDoc(1)),
    XmlFile("m", MalformedDoc),
    XmlFile("inf", InfinityDoc),
    FullArchive,
    ZipFile("corrupt", TRUE,
            <<ZipEntry(FileName("x", "xml"), FALSE, ValidDoc(1)),
              ZipEntry(FileName("y", "xml"), TRUE, ValidDoc(2))>>),
    ZipFile("broken", FALSE, <<>>),
    UploadedFile(FileName("notes", "txt"), "text/plain", TRUE, MalformedDoc, <<>>),
    ZipFile("mixed", TRUE,
            <<ZipEntry(FileName("readme", "txt"), TRUE, MalformedDoc),
              ZipEntry(FileName("C", "XML"), TRUE, ValidDoc(MaxBatchKeys))>>) }

\* the requests: one or two files
BatchUploads == { <<f>> : f \in BatchFiles } \cup (BatchFiles \X BatchFiles)

IsZip(file) ==
  file.mimetype = "application/zip" \/ file.originalname.ext = "zip"

IsXml(file) ==
  file.mimetype \in {"text/xml", "application/xml"}
    \/ file.originalname.ext = "xml"

\* the entry of results for a failure caught
Failure(message, filename) ==
  [success |-> FALSE, message |-> message, xmlKey |-> 0, cteId |-> 0,
   filename |-> filename]

\* the entry of results for what processXml returned or threw
Outcome(r, filename) ==
  IF r.last.outcome = "success"
  THEN [success |-> TRUE, message |-> "", xmlKey |-> r.last.key,
        cteId |-> r.last.cteId, filename |-> ""]
  ELSE IF r.last.outcome = "duplicate"
  THEN [success |-> FALSE, message |-> r.last.msg, xmlKey |-> r.last.key,
        cteId |-> 0, filename |-> ""]
  ELSE Failure(r.last.msg, filename)

\* a variant of Pushed that does not count a duplicate as a failure
PushedSkipsDuplicates(b, result) ==
  [b EXCEPT !.results = Append(@, result),
            !.processedCount = IF result.success THEN @ + 1 ELSE @,
            !.errorCount = IF result.success \/ result.xmlKey # 0 THEN @ ELSE @ + 1]

\* results.push(result) with its counter
Pushed(b, result) ==
  [b EXCEPT !.results = Append(@, result),
            !.processedCount = IF result.success THEN @ + 1 ELSE @,
            !.errorCount = IF result.success THEN @ ELSE @ + 1]

\* the history of the documents handed to processXml and of the files and
\* entries that could not be read
Handled(b, kind, filename, key) ==
  [b EXCEPT !.done = Append(@, [kind |-> kind, filename |-> filename,
                                key |-> key])]

BatchStart(files) ==
  /\ batch.pc \in {"idle", "done"}
  /\ IF files = <<>>
     THEN /\ batch' = batch
          /\ last' = [NoLast EXCEPT !.op = "batch", !.outcome = "error"]
     ELSE /\ batch' = [NoBatch EXCEPT !.pc = "running", !.request = files,
                                       !.files = files]
          /\ last' = last
  /\ UNCHANGED <<tenants, carriers, freight_tables, weight_ranges, ctes, audits,
                 importTables,
                 db, waiting>>

\* one turn of the loop over req.files
BatchFile ==
  /\ batch.pc = "running" /\ batch.entries = <<>> /\ batch.files # <<>>
  /\ LET file == Head(batch.files)
         b == [batch EXCEPT !.files = Tail(@)]
     IN IF IsZip(file)
        THEN /\ batch' =
                  IF file.loadable
                  THEN [b EXCEPT !.zip = file.originalname,
                                 !.entries = file.entries]
                  ELSE Pushed(Handled(b, "file", file.originalname, 0),
                              Failure("zip error", file.originalname))
             /\ UNCHANGED <<ctes, audits>>
        ELSE IF IsXml(file)
        THEN \E r \in ProcessXml(file.doc, 1) :
               /\ ctes' = r.ctes
               /\ audits' = r.audits
               /\ batch' = Pushed(Handled(b, "doc", file.originalname,
                                          file.doc.Id),
                                  Outcome(r, file.originalname))
        ELSE /\ batch' = b
             /\ UNCHANGED <<ctes, audits>>
  /\ UNCHANGED <<tenants, carriers, freight_tables, weight_ranges, last,
                 importTables,
                 db, waiting>>

\* one turn of the loop over zip.files
BatchEntry ==
  /\ batch.pc = "running" /\ batch.entries # <<>>
  /\ LET entry == Head(batch.entries)
         b == [batch EXCEPT !.entries = Tail(@)]
     IN IF ToLowerCase(entry.name.ext) # "xml"
        THEN /\ batch' = b
             /\ UNCHANGED <<ctes, audits>>
        ELSE IF ~entry.readable
        THEN /\ batch' = Pushed(Handled([b EXCEPT !.entries = <<>>], "entry",
                                        entry.name, 0),
                                Failure("read error", batch.zip))
             /\ UNCHANGED <<ctes, audits>>
        ELSE \E r \in ProcessXml(entry.doc, 1) :
               /\ ctes' = r.ctes
               /\ audits' = r.audits
               /\ batch' = Pushed(Handled(b, "doc", entry.name, entry.doc.Id),
                                  Outcome(r, entry.name))
  /\ UNCHANGED <<tenants, carriers, freight_tables, weight_ranges, last,
                 importTables,
                 db, waiting>>

\* res.json after the loop: batch keeps the response, the counters of its
\* message and its results
BatchRespond ==
  /\ batch.pc = "running" /\ batch.entries = <<>> /\ batch.files = <<>>
  /\ batch' = [batch EXCEPT !.pc = "done"]
  /\ last' = [NoLast EXCEPT !.op = "batch", !.outcome = "success"]
  /\ UNCHANGED <<tenants, carriers, freight_tables, weight_ranges, ctes, audits,
                 importTables,
                 db, waiting>>

\* batches alone
NextBatch ==
  \/ \E files \in BatchUploads \cup {<<>>} : BatchStart(files)
  \/ BatchFile
  \/ BatchEntry
  \/ BatchRespond

SpecBatch == Init /\ [][NextBatch]_vars

(***************************************************************************)
(* Two POST /api/upload-batch requests at a time.  The handler gives up    *)
(* the thread at its two awaits only: JSZip.loadAsync (line 333) and the   *)
(* read of an archive entry (line 336); everything between two awaits,     *)
(* processXml included, runs without interruption.  batch is the request   *)
(* whose code runs, waiting the request suspended at an await, or the      *)
(* response of the request that finished first.                            *)
(***************************************************************************)
\* the next step of request b resumes it from an await
AtAwait(b) ==
  /\ b.pc = "running"
  /\ IF b.entries # <<>>
     THEN ToLowerCase(Head(b.entries).name.ext) = "xml"
     ELSE b.files # <<>> /\ IsZip(Head(b.files))

\* the handler of a second request is called while the first is suspended
BatchArrive(files) ==
  /\ AtAwait(batch) /\ waiting.pc = "idle"
  /\ files # <<>>
  /\ waiting' = batch
  /\ batch' = [NoBatch EXCEPT !.pc = "running", !.request = files,
                              !.files = files]
  /\ UNCHANGED <<tenants, carriers, freight_tables, weight_ranges, ctes, audits,
                 last, importTables, db>>

\* the suspended request is resumed when the running one reaches an await
\* or has sent its response
BatchResume ==
  /\ waiting.pc = "running"
  /\ AtAwait(batch) \/ batch.pc = "done"
  /\ batch' = waiting
  /\ waiting' = batch
  /\ UNCHANGED <<tenants, carriers, freight_tables, weight_ranges, ctes, audits,
                 last, importTables, db>>

\* the archives and the file of the concurrent requests: the same two
\* documents in either order, and a document that is stored as a shipment
\* and then refused by the INSERT of the audit
ConcurrentFiles ==
  { ZipFile("k12", TRUE,
            <<ZipEntry(FileName("d1", "xml"), TRUE, ValidDoc(1)),
              ZipEntry(FileName("d2", "xml"), TRUE, ValidDoc(2))>>),
    ZipFile("k21", TRUE,
            <<ZipEntry(FileName("d2", "xml"), TRUE, ValidDoc(2)),
              ZipEntry(FileName("d1", "xml"), TRUE, ValidDoc(1))>>),
    ZipFile("kinf", TRUE,
            <<ZipEntry(FileName("inf", "xml"), TRUE, InfinityDoc),
              ZipEntry(FileName("d1", "xml"), TRUE, ValidDoc(1))>>),
    XmlFile("a", ValidDoc(1)) }

ConcurrentUploads == { <<f>> : f \in ConcurrentFiles }

NextConcurrent ==
  \/ \E files \in ConcurrentUploads : BatchStart(files)
  \/ \E files \in ConcurrentUploads : BatchArrive(files)
  \/ BatchResume
  \/ BatchFile
  \/ BatchEntry
  \/ BatchRespond

SpecConcurrent == Init /\ [][NextConcurrent]_vars

(***************************************************************************)
(* A value bound to a statement parameter: undefined is bound as NULL.     *)
(***************************************************************************)
BindValue(v) == IF v = Undefined THEN Null ELSE v

AuditIds == 1..MaxAuditId
Reasons == {Undefined, "", "wrong rate"}

(***************************************************************************)
(* POST /api/contest                                                       *)
(***************************************************************************)
\* a variant of ContestUpdate without the WHERE clause
ContestUpdateAll(rows, auditId, reason) ==
  [i \in DOMAIN rows |->
     [rows[i] EXCEPT !.status = "contested",
                     !.contestation_reason = BindValue(reason)]]

\* the status of the audit row a request names, before the request (Null: no
\* such row)
StatusOf(auditId) ==
  IF auditId \in DOMAIN audits THEN audits[auditId].status ELSE Null

\* UPDATE audits SET status = 'contested', contestation_reason = ? WHERE id = ?
ContestUpdate(rows, auditId, reason) ==
  [i \in DOMAIN rows |->
     IF rows[i].id = auditId
     THEN [rows[i] EXCEPT !.status = "contested",
                          !.contestation_reason = BindValue(reason)]
     ELSE rows[i]]

Contest(auditId, reason) ==
  /\ audits' = ContestUpdate(audits, auditId, reason)
  /\ last' = [NoLast EXCEPT !.op = "contest", !.outcome = "success",
                            !.auditId = auditId, !.reason = reason,
                            !.prev = StatusOf(auditId)]
  /\ UNCHANGED <<tenants, carriers, freight_tables, weight_ranges, ctes, batch,
                 importTables,
                 db, waiting>>

(***************************************************************************)
(* submitContest of the client: the dialog's audit (0: none selected) and  *)
(* reason; it returns without a request when either is missing.            *)
(***************************************************************************)
SubmitContest(selectedAuditForContest, contestReason) ==
  IF selectedAuditForContest = 0 \/ contestReason = ""
  THEN /\ last' = [NoLast EXCEPT !.op = "submitContest", !.outcome = "not sent"]
       /\ UNCHANGED <<tenants, carriers, freight_tables, weight_ranges, ctes,
                      audits, batch, importTables,
                      db, waiting>>
  ELSE Contest(selectedAuditForContest, contestReason)

(***************************************************************************)
(* PUT /api/audits/:id/waive                                               *)
(***************************************************************************)
\* a variant of WaiveUpdate that waives open rows only
WaiveUpdateOpenOnly(rows, auditId) ==
  [i \in DOMAIN rows |->
     IF rows[i].id = auditId /\ rows[i].status = "open"
     THEN [rows[i] EXCEPT !.status = "waived"]
     ELSE rows[i]]

\* a variant of WaiveUpdate that also clears the contestation reason
WaiveUpdateClearsReason(rows, auditId) ==
  [i \in DOMAIN rows |->
     IF rows[i].id = auditId
     THEN [rows[i] EXCEPT !.status = "waived", !.contestation_reason = Null]
     ELSE rows[i]]

\* UPDATE audits SET status = 'waived' WHERE id = ?
WaiveUpdate(rows, auditId) ==
  [i \in DOMAIN rows |->
     IF rows[i].id = auditId THEN [rows[i] EXCEPT !.status = "waived"]
     ELSE rows[i]]

Waive(auditId) ==
  /\ audits' = WaiveUpdate(audits, auditId)
  /\ last' = [NoLast EXCEPT !.op = "waive", !.outcome = "success",
                            !.auditId = auditId, !.prev = StatusOf(auditId)]
  /\ UNCHANGED <<tenants, carriers, freight_tables, weight_ranges, ctes, batch,
                 importTables,
                 db, waiting>>

(***************************************************************************)
(* POST /api/carriers and PUT /api/carriers/:id.  The name is left out; a  *)
(* missing cnpj violates NOT NULL, an unknown tenant the foreign key, and  *)
(* either is answered with status 500.                                     *)
(***************************************************************************)
Cnpjs == {SeedCnpj, OtherCnpj}
TenantIds == {1, 2}

CreateCarrier(cnpj, tenantId) ==
  /\ Len(carriers) < MaxCarriers
  /\ IF BindValue(cnpj) = Null \/ tenantId \notin tenants
     THEN /\ carriers' = carriers
          /\ last' = [NoLast EXCEPT !.op = "createCarrier", !.outcome = "error"]
     ELSE /\ carriers' = Append(carriers, [id |-> Len(carriers) + 1,
                                           tenant_id |-> tenantId, cnpj |-> cnpj])
          /\ last' = [NoLast EXCEPT !.op = "createCarrier", !.outcome = "success"]
  /\ UNCHANGED <<tenants, freight_tables, weight_ranges, ctes, audits, batch,
                 importTables,
                 db, waiting>>

UpdateCarrier(id, cnpj) ==
  LET hit == { i \in DOMAIN carriers : carriers[i].id = id /\ carriers[i].tenant_id = 1 }
  IN /\ IF hit # {} /\ BindValue(cnpj) = Null
        THEN /\ carriers' = carriers
             /\ last' = [NoLast EXCEPT !.op = "updateCarrier", !.outcome = "error"]
        ELSE /\ carriers' = [i \in DOMAIN carriers |->
                               IF i \in hit THEN [carriers[i] EXCEPT !.cnpj = cnpj]
                               ELSE carriers[i]]
             /\ last' = [NoLast EXCEPT !.op = "updateCarrier", !.outcome = "success"]
     /\ UNCHANGED <<tenants, freight_tables, weight_ranges, ctes, audits, batch,
                    importTables,
                    db, waiting>>

(***************************************************************************)
(* The listings of audits: the ids of the audit rows each query returns.   *)
(* Every audit row has its shipment row, so the JOIN drops none.           *)
(***************************************************************************)
\* SQL: x != 0, for a REAL that is not NULL
NumNonZero(x) == x.k # "fin" \/ x.v # 0

\* SQL: ABS(x) >= t, for a REAL that is not NULL and a finite t >= 0
NumAbsGe(x, t) ==
  x.k # "fin" \/ (IF x.v < 0 THEN 0 - x.v ELSE x.v) >= t

\* the 0.01 of the two queries that compare ABS(a.difference)
ListingThreshold == 10

\* GET /api/audits/divergent
AuditsDivergent ==
  { i \in DOMAIN audits :
      audits[i].status = "open" /\ NumNonZero(audits[i].difference) }

\* GET /api/audits?status=divergent, without another filter
AuditsByStatusDivergent ==
  { i \in DOMAIN audits :
      /\ audits[i].status = "open"
      /\ NumAbsGe(audits[i].difference, ListingThreshold) }

\* GET /api/abonos: the audits of the list
Abonos ==
  { i \in DOMAIN audits :
      /\ audits[i].status = "open"
      /\ NumAbsGe(audits[i].difference, ListingThreshold) }

\* the documents uploaded before the listings are read: differences of 0,
\* of half a cent (2500.04 declared for 1000.1 kg, 2500.035 calculated), of
\* more than one cent and of minus one unit against the seeded table, and a
\* carrier without a table
ListingDocs ==
  UNION { { Doc(k, SeedCnpj, RawNum(500000), RawNum(0), "0", "REM", "DEST"),
            Doc(k, SeedCnpj, RawNum(2500040), RawNum(10001), "0", "REM", "DEST"),
            Doc(k, SeedCnpj, RawNum(500011), RawNum(0), "0", "REM", "DEST"),
            Doc(k, SeedCnpj, RawNum(499000), RawNum(0), "0", "REM", "DEST"),
            Doc(k, OtherCnpj, RawNum(500000), RawNum(0), "0", "REM", "DEST") }
          : k \in Keys }

\* uploads, contests and waivers, after which the listings are read
NextListing ==
  \/ \E doc \in ListingDocs : UploadXml(doc)
  \/ \E a \in AuditIds : Contest(a, "wrong rate")
  \/ \E a \in AuditIds : Waive(a)

SpecListing == Init /\ [][NextListing]_vars

(***************************************************************************)
(* POST /api/table-imports/upload.  A cell of the first sheet is absent, a *)
(* number, a numeric string with a decimal comma, or another string; a     *)
(* text cell is absent, blank or a word.  Amounts are in thousandths.  The *)
(* columns peso, frete_valor and obs, which no decision reads, are left    *)
(* out.                                                                    *)
(***************************************************************************)
RawComma(n) == [t |-> "comma", n |-> n]

\* getNum(row[H] || row[h])
GetNum(cell) == IF cell.t \in {"num", "comma"} THEN cell.n ELSE 0

\* String(row[H] || row[h] || '').trim()
CellText(cell) == IF cell \in {Undefined, " "} THEN "" ELSE cell

SheetRow(codigo, soltransp, origem, destino, icms, pedagios, seguro, frete_peso, frete_all_in) ==
  [codigo |-> codigo, soltransp |-> soltransp, origem |-> origem,
   destino |-> destino, icms |-> icms, pedagios |-> pedagios,
   seguro |-> seguro, frete_peso |-> frete_peso,
   frete_all_in |-> frete_all_in]

\* a row with every text cell filled and the components 12, 5, 1.5 and 81.5
RowAllIn(frete_all_in) ==
  SheetRow("C1", "S1", "SP", "RJ", RawNum(12000), RawNum(5000), RawNum(1500),
           RawNum(81500), frete_all_in)

RowOk == RowAllIn(RawNum(100000))
RowHalf == RowAllIn(RawNum(50000))
RowFiveCents == RowAllIn(RawNum(100050))
RowOverFiveCents == RowAllIn(RawComma(99949))
RowNoAllIn == RowAllIn(RawAbsent)
RowZeroAllIn == RowAllIn(RawNum(0))
RowNegativeAllIn == RowAllIn(RawNum(0 - 100000))
RowTextAllIn == RowAllIn(RawText)
RowNoCodigo == [RowOk EXCEPT !.codigo = Undefined]
RowBlankSoltransp == [RowOk EXCEPT !.soltransp = " "]
RowNoOrigem == [RowHalf EXCEPT !.origem = Undefined]
RowNoDestino == [RowNoAllIn EXCEPT !.destino = Undefined]
RowTextCells ==
  SheetRow("C2", "S2", "MG", "BA", RawComma(12000), RawText, RawAbsent,
           RawComma(500), RawComma(12500))

\* What the store does with the INSERT statements run for a row: NoFault,
\* every statement succeeds; "try", the statement run inside the try block
\* (line 698 or 713) throws and the one of the catch block succeeds; "catch",
\* both throw.
NoFault == "none"

SheetFile(name, readable, data) ==
  [originalname |-> name, readable |-> readable, data |-> data,
   faults |-> [i \in DOMAIN data |-> NoFault]]

\* a readable spreadsheet with the faults of the store on its rows
FailingFile(name, data, faults) ==
  [SheetFile(name, TRUE, data) EXCEPT !.faults = faults]

\* the spreadsheets uploaded; XLSX.read throws on the unreadable one
SheetFiles ==
  { SheetFile("a.xlsx", TRUE, <<RowOk, RowHalf>>),
    SheetFile("b.xlsx", TRUE, <<RowNoCodigo, RowOk>>),
    SheetFile("c.xlsx", TRUE, <<RowNoAllIn>>),
    SheetFile("d.xlsx", TRUE, <<RowFiveCents, RowOverFiveCents, RowZeroAllIn>>),
    SheetFile("e.xlsx", TRUE, <<>>),
    SheetFile("f.xlsx", FALSE, <<RowOk>>),
    SheetFile("g.xlsx", TRUE, <<RowNoOrigem, RowNegativeAllIn, RowBlankSoltransp>>),
    SheetFile("h.xlsx", TRUE, <<RowTextCells, RowNoDestino, RowTextAllIn>>) }

\* a variant of RequiredError that validates the code and the carrier only
RequiredErrorCodeOnly(row) ==
  IF CellText(row.codigo) = "" \/ CellText(row.soltransp) = ""
  THEN "CODIGO ou SOLTRANSP ausente ou invalido"
  ELSE ""

\* errorMsg after the validation of the required cells ("": none)
RequiredError(row) ==
  IF CellText(row.codigo) = "" \/ CellText(row.soltransp) = ""
  THEN "CODIGO ou SOLTRANSP ausente ou invalido"
  ELSE IF CellText(row.origem) = "" \/ CellText(row.destino) = ""
  THEN "ORIGEM ou DESTINO ausente ou invalido"
  ELSE ""

\* a variant of CalculatedTotal that leaves the insurance out
CalculatedTotalNoInsurance(row) ==
  GetNum(row.icms) + GetNum(row.pedagios) + GetNum(row.frete_peso)

\* icms + pedagios + seguro + frete_peso
CalculatedTotal(row) ==
  GetNum(row.icms) + GetNum(row.pedagios) + GetNum(row.seguro)
    + GetNum(row.frete_peso)

AbsDiff(a, b) == IF a < b THEN b - a ELSE a - b

ReconcileTolerance == 50

ReconcileStatus(calculated_total, frete_all_in) ==
  IF AbsDiff(calculated_total, frete_all_in) <= ReconcileTolerance
  THEN "CONCILIADO"
  ELSE "ERRO DE CONCILIACAO"

MemoryRow(id, row) ==
  [id |-> id, codigo |-> CellText(row.codigo),
   soltransp |-> CellText(row.soltransp), origem |-> CellText(row.origem),
   destino |-> CellText(row.destino), icms |-> GetNum(row.icms),
   pedagios |-> GetNum(row.pedagios), seguro |-> GetNum(row.seguro),
   frete_peso |-> GetNum(row.frete_peso),
   frete_all_in |-> GetNum(row.frete_all_in),
   calculated_total |-> CalculatedTotal(row),
   status |-> ReconcileStatus(CalculatedTotal(row), GetNum(row.frete_all_in))]

ErrorRow(id, importId, rowNum, errorMsg, row) ==
  [id |-> id, import_id |-> importId, row_number |-> rowNum,
   error_message |-> errorMsg, raw_data |-> row]

\* insertErrorStmt.run(importId, rowNum, errorMsg, JSON.stringify(row))
Logged(st, importId, rowNum, errorMsg, row) ==
  [st EXCEPT !.import_errors =
               Append(@, ErrorRow(Len(@) + 1, importId, rowNum, errorMsg, row))]

\* the catch block of a row (lines 721-725); when its own INSERT throws, the
\* exception leaves the function of the transaction
Caught(st, importId, rowNum, row, fault) ==
  IF fault = "catch"
  THEN [st EXCEPT !.errors = @ + 1, !.thrown = TRUE]
  ELSE Logged([st EXCEPT !.errors = @ + 1], importId, rowNum, "Erro interno",
              row)

\* One turn of the loop over the rows.  st holds the two tables written in
\* the transaction, the counters imported and errors, and thrown: whether
\* an exception left the loop.
ImportRow(st, importId, rowNum, row, fault) ==
  LET errorMsg == RequiredError(row)
      frete_all_in == GetNum(row.frete_all_in)
  IN IF errorMsg # ""
     THEN (IF fault = NoFault
           THEN Logged([st EXCEPT !.errors = @ + 1], importId, rowNum,
                       errorMsg, row)
           ELSE Caught([st EXCEPT !.errors = @ + 1], importId, rowNum, row,
                       fault))
     ELSE IF frete_all_in <= 0
     THEN st
     ELSE IF fault = NoFault
     THEN [st EXCEPT !.imported = @ + 1,
                     !.memory_calculations =
                        Append(@, MemoryRow(Len(@) + 1, row))]
     ELSE Caught(st, importId, rowNum, row, fault)

RECURSIVE ImportRows(_, _, _, _, _)
\* the rows data[i..] of the sheet, row data[i] having number i + 1; an
\* exception that leaves the loop ends it
ImportRows(st, importId, data, faults, i) ==
  IF i > Len(data) \/ st.thrown THEN st
  ELSE ImportRows(ImportRow(st, importId, i + 1, data[i], faults[i]),
                  importId, data, faults, i + 1)

ImportRecord(id, filename, imported, errors, total, status) ==
  [id |-> id, filename |-> filename, qty_imported |-> imported,
   qty_errors |-> errors, qty_total |-> total, status |-> status]

\* a variant of FileStatus that reports every file as a success
FileStatusSuccess(errors) == "success"

\* fileStatus (line 730)
FileStatus(errors) == IF errors > 0 THEN "warning" ELSE "success"

\* a variant of Transaction that keeps the rows written before the exception
TransactionKeepsRows(tables, st) ==
  [import_errors |-> st.import_errors,
   memory_calculations |-> st.memory_calculations]

\* db.transaction(fn)(): the two tables after the function of the
\* transaction returned (commit) or threw (rollback)
Transaction(tables, st) ==
  IF st.thrown
  THEN [import_errors |-> tables.import_errors,
        memory_calculations |-> tables.memory_calculations]
  ELSE [import_errors |-> st.import_errors,
        memory_calculations |-> st.memory_calculations]

\* One turn of the loop over the files.  tables holds the three tables and
\* the results of the response.
ImportFile(tables, file) ==
  LET importId == Len(tables.table_imports) + 1
      created == Append(tables.table_imports,
                        ImportRecord(importId, file.originalname, 0, 0, 0,
                                     "processing"))
      st == ImportRows([import_errors |-> tables.import_errors,
                        memory_calculations |-> tables.memory_calculations,
                        imported |-> 0, errors |-> 0, thrown |-> FALSE],
                       importId, file.data, file.faults, 1)
      fileStatus == FileStatus(st.errors)
  IN IF ~file.readable
     THEN [tables EXCEPT !.table_imports = created,
                     !.results = Append(@, [filename |-> file.originalname,
                                            status |-> "error"])]
     ELSE IF st.thrown
     THEN [table_imports |-> created,
           import_errors |-> Transaction(tables, st).import_errors,
           memory_calculations |-> Transaction(tables, st).memory_calculations,
           results |-> Append(tables.results, [filename |-> file.originalname,
                                           status |-> "error"])]
     ELSE [table_imports |->
             [created EXCEPT ![importId] =
                ImportRecord(importId, file.originalname, st.imported,
                             st.errors, st.imported + st.errors, fileStatus)],
           import_errors |-> Transaction(tables, st).import_errors,
           memory_calculations |-> Transaction(tables, st).memory_calculations,
           results |-> Append(tables.results, [filename |-> file.originalname,
                                           status |-> "success"])]

RECURSIVE ImportFilesUntilError(_, _, _)
\* a variant of ImportFiles that gives up the request at the first file that
\* fails
ImportFilesUntilError(tables, files, j) ==
  IF j > Len(files) THEN tables
  ELSE LET next == ImportFile(tables, files[j])
       IN IF next.results[Len(next.results)].status = "error" THEN next
          ELSE ImportFilesUntilError(next, files, j + 1)

RECURSIVE ImportFiles(_, _, _)
\* the loop over req.files, from file j on
ImportFiles(tables, files, j) ==
  IF j > Len(files) THEN tables
  ELSE ImportFiles(ImportFile(tables, files[j]), files, j + 1)

\* the requests: one or two files
SheetUploads ==
  { <<f>> : f \in SheetFiles } \cup (SheetFiles \X SheetFiles)

ImportUpload(files) ==
  /\ Len(table_imports) + Len(files) <= MaxImports
  /\ LET tables == ImportFiles([table_imports |-> table_imports,
                                import_errors |-> import_errors,
                                memory_calculations |-> memory_calculations,
                                results |-> <<>>], files, 1)
     IN /\ table_imports' = tables.table_imports
        /\ import_errors' = tables.import_errors
        /\ memory_calculations' = tables.memory_calculations
        /\ last' = [NoLast EXCEPT !.op = "import", !.outcome = "success",
                                  !.files = files, !.results = tables.results]
  /\ UNCHANGED <<tenants, carriers, freight_tables, weight_ranges, ctes, audits,
                 batch, db, waiting>>

\* the spreadsheet import alone
NextImport == \E files \in SheetUploads : ImportUpload(files)

SpecImport == Init /\ [][NextImport]_vars

\* spreadsheets whose INSERT statements the store refuses on some rows, next
\* to spreadsheets imported without a fault
FaultFiles ==
  { FailingFile("p.xlsx", <<RowOk, RowHalf>>, <<NoFault, "try">>),
    FailingFile("q.xlsx", <<RowNoCodigo, RowOk>>, <<"try", NoFault>>),
    FailingFile("r.xlsx", <<RowOk, RowHalf, RowOk>>, <<NoFault, "catch", NoFault>>),
    FailingFile("s.xlsx", <<RowNoOrigem, RowOk>>, <<NoFault, "catch">>),
    FailingFile("t.xlsx", <<RowNoCodigo, RowFiveCents>>, <<"catch", NoFault>>),
    SheetFile("a.xlsx", TRUE, <<RowOk, RowHalf>>),
    SheetFile("b.xlsx", TRUE, <<RowNoCodigo, RowOk>>),
    SheetFile("c.xlsx", TRUE, <<RowNoAllIn>>),
    SheetFile("e.xlsx", TRUE, <<>>),
    SheetFile("f.xlsx", FALSE, <<RowOk>>) }

\* the requests: one or two files
FaultUploads == { <<f>> : f \in FaultFiles } \cup (FaultFiles \X FaultFiles)

\* the spreadsheet import on a store that may refuse a statement
NextFaults == \E files \in FaultUploads : ImportUpload(files)

SpecFaults == Init /\ [][NextFaults]_vars

\* the documents uploaded next to the other requests: one that is audited
\* with a value divergence, one of a carrier that is not registered at first
FrameDocs ==
  UNION { { Doc(k, SeedCnpj, RawNum(500011), RawNum(0), "0", "REM", "DEST"),
            Doc(k, OtherCnpj, RawNum(500000), RawNum(0), "0", "REM", "DEST") }
          : k \in AuditKeys }

\* every request that writes to the store, on a few inputs
NextFrame ==
  \/ \E doc \in FrameDocs : UploadXml(doc)
  \/ \E a \in AuditIds : Contest(a, "wrong rate")
  \/ \E a \in AuditIds : Waive(a)
  \/ CreateCarrier(OtherCnpj, 1)
  \/ \E c \in Cnpjs : UpdateCarrier(1, c)
  \/ ImportUpload(<<SheetFile("b.xlsx", TRUE, <<RowNoCodigo, RowOk>>)>>)

SpecFrame == Init /\ [][NextFrame]_vars

(***************************************************************************)
(* The initialization block (lines 29-180) and the middleware in front of  *)
(* the routes (lines 193-203).  db is undefined when better-sqlite3 could  *)
(* not be loaded or new Database threw; "opened" when new Database         *)
(* returned (line 34) and a later statement of the block threw, as with a  *)
(* file that is not a database: the handle is assigned, and every          *)
(* statement prepared on it throws; "ready" when the block completed.      *)
(***************************************************************************)
DbStates == {"ready", "opened", Undefined}

\* the routes registered after the middleware that model a request
Routes ==
  {"upload", "contest", "waive", "createCarrier", "updateCarrier", "import"}

\* the server after start-up, whatever became of the initialization
Startup ==
  /\ db \in DbStates
  /\ tenants = {1}
  /\ carriers = SeedCarriers
  /\ freight_tables = SeedTables
  /\ weight_ranges = SeedRanges
  /\ ctes = <<>>
  /\ audits = <<>>
  /\ last = NoLast
  /\ batch = NoBatch
  /\ table_imports = <<>>
  /\ import_errors = <<>>
  /\ memory_calculations = <<>>
  /\ waiting = NoBatch

\* GET /api/health, registered before the middleware
Health ==
  /\ last' = [NoLast EXCEPT !.op = "health", !.outcome = "ok"]
  /\ UNCHANGED <<tenants, carriers, freight_tables, weight_ranges, ctes, audits,
                 batch, importTables, db, waiting>>

\* the middleware: if (!db) return res.status(503)
Unavailable(route) ==
  /\ db = Undefined
  /\ last' = [NoLast EXCEPT !.op = route, !.outcome = "unavailable"]
  /\ UNCHANGED <<tenants, carriers, freight_tables, weight_ranges, ctes, audits,
                 batch, importTables, db, waiting>>

\* a request to a route whose handler runs on the handle of a store that
\* was not initialized: its first statement throws, and the request is
\* answered as a failure of the handler (status 500, or a failed outcome
\* for each file of an upload)
Uninitialized(route) ==
  /\ db = "opened"
  /\ last' = [NoLast EXCEPT !.op = route, !.outcome = "error"]
  /\ UNCHANGED <<tenants, carriers, freight_tables, weight_ranges, ctes, audits,
                 batch, importTables, db, waiting>>

\* the server from start-up on
NextStartup ==
  \/ Health
  \/ \E route \in Routes : Unavailable(route)
  \/ \E route \in Routes : Uninitialized(route)
  \/ db = "ready" /\ NextFrame

SpecStartup == Startup /\ [][NextStartup]_vars

\* the whole server, on a few documents
Next ==
  \/ \E doc \in CoreDocs : UploadXml(doc)
  \/ \E a \in AuditIds, r \in Reasons : Contest(a, r)
  \/ \E a \in 0..MaxAuditId, r \in Reasons \ {Undefined} : SubmitContest(a, r)
  \/ \E a \in AuditIds : Waive(a)
  \/ \E c \in Cnpjs \cup {Undefined}, t \in TenantIds : CreateCarrier(c, t)
  \/ \E i \in 1..MaxCarriers, c \in Cnpjs \cup {Undefined} : UpdateCarrier(i, c)

Spec == Init /\ [][Next]_vars

\* the audit pipeline, on every document: uploads and new carriers
NextAudit ==
  \/ \E doc \in Docs : UploadXml(doc)
  \/ \E c \in Cnpjs \cup {Undefined}, t \in TenantIds : CreateCarrier(c, t)

SpecAudit == Init /\ [][NextAudit]_vars

\* the life of an audit: uploads, contests and waivers
NextWorkflow ==
  \/ \E doc \in CoreDocs : UploadXml(doc)
  \/ \E a \in AuditIds, r \in Reasons : Contest(a, r)
  \/ \E a \in 0..MaxAuditId, r \in Reasons \ {Undefined} : SubmitContest(a, r)
  \/ \E a \in AuditIds : Waive(a)

SpecWorkflow == Init /\ [][NextWorkflow]_vars

(***************************************************************************)
(* Properties of the audit pipeline (SpecAudit).  They read the locals of  *)
(* the last processXml call from last, and the rows it inserted.           *)
(***************************************************************************)
LastAudited == last.op = "upload" /\ last.outcome = "success"

\* |declared - calculated| <= 0.01, and > 0.01, of the shipment of audit row a
WithinOneCent(a) ==
  LET declared == ctes[a.cte_id].total_value
      calculated == a.calculated_value
  IN /\ declared.k = "fin" /\ calculated.k = "fin"
     /\ declared.v - calculated.v <= 10
     /\ calculated.v - declared.v <= 10

ExceedsOneCent(a) ==
  LET declared == ctes[a.cte_id].total_value
      calculated == a.calculated_value
  IN \/ declared.k = "inf" /\ calculated.k = "fin"
     \/ /\ declared.k = "fin" /\ calculated.k = "fin"
        /\ (declared.v - calculated.v > 10 \/ calculated.v - declared.v > 10)

\* C1: when the carrier, its active table and a weight range (minimum min,
\* base b, rate r) were found for a document of weight w, the audit row stored
\* for it has calculated_value = b + r * max(0, w - min).
C1_BandCharge ==
  (LastAudited /\ last.carrier # 0 /\ last.table # 0 /\ last.band # 0) =>
    LET wr == RangeById(last.band)
        w == ctes[last.cteId].weight
        over == IF w.v > wr.min_weight THEN w.v - wr.min_weight ELSE 0
    IN /\ audits[last.auditId].cte_id = last.cteId
       /\ NumBetween(w, wr.min_weight, wr.max_weight)
       /\ audits[last.auditId].calculated_value
            = Fin(wr.base_value + wr.kg_extra_value * over)

\* C1 witness: a document of 1001 kg audited against the second range, one
\* kilogram above its minimum.
C1_Witness ==
  /\ LastAudited /\ last.band = 2
  /\ ctes[last.cteId].weight = Fin(10010)
  /\ audits[last.auditId].calculated_value = Fin(2500350)

\* C2: when the carrier tax id of a processed document matches no carrier, or
\* the carrier found has no active table under the tenant, the audit row
\* created has calculated_value equal to the declared total, difference 0 and
\* divergence_type table_error.
C2_TableError ==
  (/\ LastAudited
   /\ \/ CarrierRows(ctes[last.cteId].carrier_cnpj) = {}
      \/ last.carrier # 0 /\ TableRows(1, last.carrier) = {}) =>
    LET a == audits[last.auditId]
    IN /\ a.cte_id = last.cteId
       /\ a.calculated_value = ctes[last.cteId].total_value
       /\ a.difference = Fin(0)
       /\ a.divergence_type = "table_error"

\* C2 witness: an audit created for a document whose carrier exists and has
\* no table.
C2_Witness ==
  /\ LastAudited /\ last.carrier # 0 /\ TableRows(1, last.carrier) = {}
  /\ audits[last.auditId].divergence_type = "table_error"

\* C3: when the table was found and the weight of the document lies in none
\* of its ranges, the audit row created has divergence_type weight_error,
\* calculated_value equal to the declared total and difference 0.
C3_WeightError ==
  (/\ LastAudited /\ last.table # 0
   /\ RangeRows(last.table, ctes[last.cteId].weight) = {}) =>
    LET a == audits[last.auditId]
    IN /\ a.cte_id = last.cteId
       /\ a.divergence_type = "weight_error"
       /\ a.calculated_value = ctes[last.cteId].total_value
       /\ a.difference = Fin(0)

\* C3 witness: an audit created for a document of 60000 kg of the seeded
\* carrier.
C3_Witness ==
  /\ LastAudited /\ last.table # 0 /\ last.band = 0
  /\ ctes[last.cteId].weight = Fin(600000)
  /\ audits[last.auditId].divergence_type = "weight_error"

\* C4: an audit row with |declared - calculated| <= 0.01 never has
\* divergence_type value_divergence; the row just created has NULL there
\* unless the missing table or the missing range set table_error or
\* weight_error.
C4_WithinTolerance ==
  /\ \A i \in DOMAIN audits :
       WithinOneCent(audits[i]) => audits[i].divergence_type # "value_divergence"
  /\ (LastAudited /\ WithinOneCent(audits[last.auditId])) =>
       audits[last.auditId].divergence_type
         = (IF last.table = 0 THEN "table_error"
            ELSE IF last.band = 0 THEN "weight_error"
            ELSE Null)

\* C4 witness: an audit of a document declared exactly one cent above the
\* calculated value, stored without a divergence.
C4_Witness ==
  /\ LastAudited /\ last.band # 0
  /\ audits[last.auditId].difference = Fin(10)
  /\ audits[last.auditId].divergence_type = Null

\* C5: an audit row created with |declared - calculated| > 0.01 and neither
\* table_error nor weight_error set has divergence_type value_divergence;
\* every audit row is created with status open and references the shipment
\* row inserted for the same document.
C5_ValueDivergence ==
  LastAudited =>
    LET a == audits[last.auditId]
    IN /\ a.status = "open"
       /\ a.cte_id = last.cteId
       /\ last.cteId \in DOMAIN ctes
       /\ ctes[last.cteId].xml_key = last.key
       /\ (ExceedsOneCent(a) /\ last.table # 0 /\ last.band # 0) =>
            a.divergence_type = "value_divergence"

\* C5 witness: an open audit row created with a difference of 0.011 and
\* divergence_type value_divergence.
C5_Witness ==
  /\ LastAudited
  /\ audits[last.auditId].status = "open"
  /\ audits[last.auditId].divergence_type = "value_divergence"
  /\ audits[last.auditId].difference = Fin(11)

(***************************************************************************)
(* Properties of the whole server (Spec).                                  *)
(***************************************************************************)
CtesOfKey(table, xmlKey) == { i \in DOMAIN table : table[i].xml_key = xmlKey }

AuditsOfCte(table, cteId) == { i \in DOMAIN table : table[i].cte_id = cteId }

\* C6: an upload of a document whose key already has a shipment row answers
\* with the already-imported outcome and changes neither table, and the store
\* then holds exactly one shipment row and exactly one audit row for the key.
C6_Idempotent ==
  [][(/\ last'.op = "upload" /\ last'.key # 0
      /\ CtesOfKey(ctes, last'.key) # {}) =>
       /\ last'.outcome = "duplicate"
       /\ ctes' = ctes /\ audits' = audits
       /\ Cardinality(CtesOfKey(ctes', last'.key)) = 1
       /\ \A i \in CtesOfKey(ctes', last'.key) :
            Cardinality(AuditsOfCte(audits', ctes'[i].id)) = 1]_vars

\* C7: every shipment row has exactly one audit row referencing it, and every
\* audit row references a shipment row.
C7_OneAuditPerShipment ==
  /\ \A i \in DOMAIN ctes : Cardinality(AuditsOfCte(audits, ctes[i].id)) = 1
  /\ \A i \in DOMAIN audits : \E j \in DOMAIN ctes : ctes[j].id = audits[i].cte_id

\* C8: an audit row whose status is contested or waived keeps that status.
C8_TerminalStatus ==
  [][\A i \in DOMAIN audits :
       audits[i].status \in {"contested", "waived"} =>
         audits'[i].status = audits[i].status]_vars

\* C9: a contest request for an audit row that gives no reason (absent or
\* empty) is answered with a failure and leaves the status and the
\* contestation_reason of the row as they were.
C9_ContestNeedsReason ==
  [][(/\ last'.op = "contest" /\ last'.reason \in {Undefined, ""}
      /\ last'.auditId \in DOMAIN audits) =>
       /\ last'.outcome = "error"
       /\ audits'[last'.auditId].status = audits[last'.auditId].status
       /\ audits'[last'.auditId].contestation_reason
            = audits[last'.auditId].contestation_reason]_vars

\* C10: a contest request with a non-empty reason for an existing open audit
\* row sets that row's status to contested and its contestation_reason to the
\* reason given, and changes no other audit row and no shipment row.
C10_ContestStoresReason ==
  [][(/\ last'.op = "contest" /\ last'.reason \notin {Undefined, ""}
      /\ last'.auditId \in DOMAIN audits
      /\ audits[last'.auditId].status = "open") =>
       /\ audits' = [audits EXCEPT
                       ![last'.auditId].status = "contested",
                       ![last'.auditId].contestation_reason = last'.reason]
       /\ ctes' = ctes]_vars

\* C10 witness: the second of two audit rows contested with a reason, the
\* first still open.
C10_Witness ==
  /\ last.op = "contest" /\ last.auditId = 2 /\ last.reason = "wrong rate"
  /\ Len(audits) = 2
  /\ audits[1].status = "open"
  /\ audits[2].status = "contested"
  /\ audits[2].contestation_reason = "wrong rate"

(***************************************************************************)
(* Properties of contest and waive (SpecWorkflow).                         *)
(***************************************************************************)
\* every table of the store
store ==
  <<tenants, carriers, freight_tables, weight_ranges, ctes, audits,
    importTables>>

\* C11: a waive request for an existing audit row leaves it waived whatever
\* its status was, and a waive request for a row that is already waived
\* leaves every table of the store as it was.
C11_WaiveIdempotent ==
  [][(last'.op = "waive" /\ last'.auditId \in DOMAIN audits) =>
       /\ audits'[last'.auditId].status = "waived"
       /\ audits[last'.auditId].status = "waived" => store' = store]_vars

\* C11 witness: a waive request answered for a row that was already waived.
C11_Witness ==
  /\ last.op = "waive" /\ last.prev = "waived"
  /\ last.auditId \in DOMAIN audits
  /\ audits[last.auditId].status = "waived"

(***************************************************************************)
(* Properties of the spreadsheet import (SpecImport).  A step of the       *)
(* import is read from last'.files, the files of the request, and from the *)
(* rows it added to the three tables.                                      *)
(***************************************************************************)
\* the row has its code, carrier reference, origin and destination
HasRequired(row) ==
  /\ row.codigo \notin {Undefined, " "} /\ row.soltransp \notin {Undefined, " "}
  /\ row.origem \notin {Undefined, " "} /\ row.destino \notin {Undefined, " "}

\* the all-in total of the row is a positive number
PositiveAllIn(row) ==
  row.frete_all_in.t \in {"num", "comma"} /\ row.frete_all_in.n > 0

RECURSIVE ReadableRows(_, _)
\* the rows of the readable files files[j..], in order
ReadableRows(files, j) ==
  IF j > Len(files) THEN <<>>
  ELSE (IF files[j].readable THEN files[j].data ELSE <<>>)
         \o ReadableRows(files, j + 1)

Reconcilable(row) == HasRequired(row) /\ PositiveAllIn(row)

\* the rows a step added to a table
Added(before, after) == SubSeq(after, Len(before) + 1, Len(after))

\* C18: the rows an import adds to memory_calculations are, in order, those
\* of the rows of the request that have the required cells and a positive
\* all-in total; each has calculated_total = icms + pedagios + seguro +
\* frete_peso and status CONCILIADO if |calculated_total - frete_all_in| <=
\* 0.05, ERRO DE CONCILIACAO otherwise.
C18_Reconciliation ==
  [][last'.op = "import" =>
       LET rows == SelectSeq(ReadableRows(last'.files, 1), Reconcilable)
           new == Added(memory_calculations, memory_calculations')
       IN /\ Len(new) = Len(rows)
          /\ \A k \in 1..Len(new) :
               LET sum == rows[k].icms.n + rows[k].pedagios.n
                            + rows[k].seguro.n + rows[k].frete_peso.n
                   allIn == rows[k].frete_all_in.n
               IN /\ new[k].codigo = rows[k].codigo
                  /\ new[k].frete_all_in = allIn
                  /\ new[k].calculated_total = sum
                  /\ new[k].status =
                       (IF sum - allIn <= 50 /\ allIn - sum <= 50
                        THEN "CONCILIADO" ELSE "ERRO DE CONCILIACAO")]_vars

\* C18 witness: an import that stored the components 12, 5, 1.5 and 81.5
\* with all-in 100 as CONCILIADO and with all-in 50 as ERRO DE CONCILIACAO.
C18_Witness ==
  /\ last.op = "import"
  /\ \E i, j \in DOMAIN memory_calculations :
       /\ memory_calculations[i].calculated_total = 100000
       /\ memory_calculations[i].frete_all_in = 100000
       /\ memory_calculations[i].status = "CONCILIADO"
       /\ memory_calculations[j].calculated_total = 100000
       /\ memory_calculations[j].frete_all_in = 50000
       /\ memory_calculations[j].status = "ERRO DE CONCILIACAO"

\* the import_errors rows of import importId for sheet row rowNum
ErrorsOf(table, importId, rowNum) ==
  { e \in DOMAIN table :
      table[e].import_id = importId /\ table[e].row_number = rowNum }

\* C19: for every readable file of an import and every row of it that lacks
\* the code, the carrier reference, the origin or the destination, exactly
\* one import_errors row is stored for the file's table_imports row, with the
\* number of the row, a message and the raw row; qty_errors counts these
\* rows; no row of memory_calculations lacks one of the four cells; and the
\* rows after it are processed, so that memory_calculations gains one row
\* for every row with the required cells and a positive all-in total.
C19_MissingRequired ==
  [][last'.op = "import" =>
       /\ \A j \in DOMAIN last'.files :
            LET file == last'.files[j]
                importId == Len(table_imports) + j
                missing == { i \in DOMAIN file.data : ~HasRequired(file.data[i]) }
            IN file.readable =>
                 /\ \A i \in missing :
                      /\ Cardinality(ErrorsOf(import_errors', importId, i + 1)) = 1
                      /\ \A e \in ErrorsOf(import_errors', importId, i + 1) :
                           /\ import_errors'[e].raw_data = file.data[i]
                           /\ import_errors'[e].error_message # ""
                 /\ table_imports'[importId].qty_errors >= Cardinality(missing)
       /\ \A m \in DOMAIN memory_calculations' :
            /\ memory_calculations'[m].codigo # ""
            /\ memory_calculations'[m].soltransp # ""
            /\ memory_calculations'[m].origem # ""
            /\ memory_calculations'[m].destino # ""
       /\ Len(Added(memory_calculations, memory_calculations'))
            = Len(SelectSeq(ReadableRows(last'.files, 1), Reconcilable))]_vars

\* C19 witness: an import of a file whose first row has no code and whose
\* second row was reconciled.
C19_Witness ==
  /\ last.op = "import"
  /\ \E j \in DOMAIN last.files :
       /\ last.files[j].data = <<RowNoCodigo, RowOk>>
       /\ \E e \in DOMAIN import_errors :
            /\ import_errors[e].row_number = 2
            /\ import_errors[e].raw_data = RowNoCodigo
            /\ table_imports[import_errors[e].import_id].qty_errors = 1
            /\ table_imports[import_errors[e].import_id].qty_imported = 1

\* C20: for every readable file of an import and every row of it that has
\* the required cells and an absent, zero or negative all-in total, an
\* import_errors row is stored for the file's table_imports row and the
\* number of the row, qty_errors counts it, the status of the table_imports
\* row is warning, and memory_calculations gains no row for it.
C20_NoAllInTotal ==
  [][last'.op = "import" =>
       /\ \A j \in DOMAIN last'.files :
            LET file == last'.files[j]
                importId == Len(table_imports) + j
                noTotal == { i \in DOMAIN file.data :
                               /\ HasRequired(file.data[i])
                               /\ ~PositiveAllIn(file.data[i]) }
            IN (file.readable /\ noTotal # {}) =>
                 /\ \A i \in noTotal :
                      ErrorsOf(import_errors', importId, i + 1) # {}
                 /\ table_imports'[importId].qty_errors >= Cardinality(noTotal)
                 /\ table_imports'[importId].status = "warning"
       /\ Len(Added(memory_calculations, memory_calculations'))
            = Len(SelectSeq(ReadableRows(last'.files, 1), Reconcilable))]_vars

(***************************************************************************)
(* Frame of the audit rows (SpecFrame).                                    *)
(***************************************************************************)
\* C12: no request changes calculated_value, difference, divergence_type or
\* cte_id of an audit row that exists, removes an audit row or changes its
\* id; a contest changes nothing else than status and contestation_reason of
\* audit rows, a waive nothing else than status, and every other request
\* leaves the audit rows that exist as they are.
C12_AuditFrame ==
  [][/\ Len(audits') >= Len(audits)
     /\ \A i \in DOMAIN audits :
          /\ audits'[i].id = audits[i].id
          /\ audits'[i].cte_id = audits[i].cte_id
          /\ audits'[i].calculated_value = audits[i].calculated_value
          /\ audits'[i].difference = audits[i].difference
          /\ audits'[i].divergence_type = audits[i].divergence_type
          /\ last'.op = "waive" =>
               audits'[i].contestation_reason = audits[i].contestation_reason
          /\ last'.op \notin {"waive", "contest"} => audits'[i] = audits[i]]_vars

\* C12 witness: a waive request answered for a contested audit row with a
\* value divergence, after a carrier was registered and a spreadsheet
\* imported; the row keeps its reason.
C12_Witness ==
  /\ last.op = "waive" /\ last.prev = "contested"
  /\ last.auditId \in DOMAIN audits
  /\ audits[last.auditId].status = "waived"
  /\ audits[last.auditId].contestation_reason = "wrong rate"
  /\ audits[last.auditId].divergence_type = "value_divergence"
  /\ Len(carriers) > 1
  /\ Len(memory_calculations) > 0

(***************************************************************************)
(* Properties of the upload batches (SpecBatch).                           *)
(***************************************************************************)
\* the documents of an archive: its entries named .xml
XmlEntries(file) ==
  { i \in DOMAIN file.entries : ToLowerCase(file.entries[i].name.ext) = "xml" }

RECURSIVE Documents(_, _)
\* the number of documents of the files files[j..]: one for an XML file, one
\* for an archive that cannot be opened, one for every entry named .xml of
\* an archive that can
Documents(files, j) ==
  IF j > Len(files) THEN 0
  ELSE (IF IsZip(files[j])
        THEN (IF files[j].loadable THEN Cardinality(XmlEntries(files[j])) ELSE 1)
        ELSE IF IsXml(files[j]) THEN 1 ELSE 0)
       + Documents(files, j + 1)

\* C13: when the response of a batch is sent, every document of the request
\* has its entry in results, whatever failed before it, and every failed
\* entry carries a message.
C13_FailureIsolated ==
  batch.pc = "done" =>
    /\ Len(batch.results) = Documents(batch.request, 1)
    /\ \A i \in DOMAIN batch.results :
         ~batch.results[i].success => batch.results[i].message # ""

Successes(results) ==
  Cardinality({ i \in DOMAIN results : results[i].success })

\* C14: at every point of a batch, results has one entry for everything
\* handled so far, in the order of handling: the entry of a document handed
\* to processXml carries its key, or its file name when processXml threw;
\* processedCount is the number of entries with success, errorCount the
\* number of the others, and their sum the length of results.
C14_BatchCounts ==
  /\ Len(batch.results) = Len(batch.done)
  /\ \A i \in DOMAIN batch.results :
       batch.done[i].kind = "doc" =>
         IF batch.results[i].xmlKey # 0
         THEN batch.results[i].xmlKey = batch.done[i].key
         ELSE /\ ~batch.results[i].success
              /\ batch.results[i].filename = batch.done[i].filename
  /\ batch.processedCount = Successes(batch.results)
  /\ batch.errorCount = Len(batch.results) - Successes(batch.results)
  /\ batch.processedCount + batch.errorCount = Len(batch.results)

\* C14 witness: the response to an archive of three valid documents and a
\* malformed one: 3 imported, 1 failure, 4 entries.
C14_Witness ==
  /\ batch.pc = "done" /\ batch.request = <<FullArchive>>
  /\ batch.processedCount = 3 /\ batch.errorCount = 1
  /\ Len(batch.results) = 4

(***************************************************************************)
(* Properties of processXml on every document (SpecAudit).  A step is the  *)
(* upload of document doc when it satisfies UploadXml(doc).                *)
(***************************************************************************)
\* the document lacks the info block, the key, the carrier tax id, or the
\* tax id of the party its type code names
StructurallyDeficient(doc) ==
  \/ ~doc.infCte
  \/ doc.Id = 0
  \/ doc.emitCNPJ = ""
  \/ doc.toma = "3" /\ doc.destCNPJ = ""
  \/ doc.toma # "3" /\ doc.remCNPJ = ""

\* C15: an upload of a document with a structural error is answered with a
\* failure (or as already imported, the key being looked up first) and
\* leaves every table as it was; so does every upload answered with one of
\* the four structural messages.
C15_StructuralErrorStoresNothing ==
  [][/\ \A doc \in Docs :
          (StructurallyDeficient(doc) /\ UploadXml(doc)) =>
            /\ last'.outcome \in {"error", "duplicate"}
            /\ store' = store
     /\ (/\ last'.op = "upload" /\ last'.outcome = "error"
         /\ last'.msg \in {"infCte nao encontrado",
                           "Chave do CT-e nao encontrada",
                           "CNPJ do transportador nao encontrado",
                           "CNPJ do tomador nao determinado"})
          => store' = store]_vars

\* C15 witness: an upload refused for its missing key after a shipment and
\* its audit were stored.
C15_Witness ==
  /\ last.op = "upload" /\ last.outcome = "error"
  /\ last.msg = "Chave do CT-e nao encontrada"
  /\ Len(ctes) = 1 /\ Len(audits) = 1

\* the document passes the checks that come before the payer is resolved
ReachesPayer(doc) ==
  /\ doc.infCte /\ doc.Id # 0 /\ doc.emitCNPJ # ""
  /\ \A i \in DOMAIN ctes : ctes[i].xml_key # doc.Id

\* C16: the tomador_cnpj of the shipment row stored for a document is the
\* sender's tax id for type code 0, the recipient's for type code 3, the
\* sender's for any other or no type code; when that tax id is absent the
\* upload fails with the missing-payer message and stores nothing.
C16_PayerRule ==
  [][\A doc \in Docs :
       (last'.key = doc.Id /\ ReachesPayer(doc) /\ UploadXml(doc)) =>
          LET payer == CASE doc.toma = "0" -> doc.remCNPJ
                         [] doc.toma = "3" -> doc.destCNPJ
                         [] OTHER -> doc.remCNPJ
          IN IF payer = ""
             THEN /\ last'.outcome = "error"
                  /\ last'.msg = "CNPJ do tomador nao determinado"
                  /\ store' = store
             ELSE \A i \in DOMAIN ctes' :
                    ctes'[i].xml_key = doc.Id => ctes'[i].tomador_cnpj = payer]_vars

\* C16 witness: a shipment stored with the recipient as payer.
C16_Witness ==
  /\ LastAudited
  /\ ctes[last.cteId].tomador_cnpj = "DEST"

\* C17: an upload of a document that has its structural fields and a new
\* key, and whose declared total is text that is not a number, succeeds and
\* stores a shipment row with total_value 0 and an audit row for it.
C17_UnparseableTotal ==
  [][\A doc \in Docs :
       (/\ doc.vTPrest = RawText /\ doc.qCarga.t \in {"num", "absent"}
        /\ ReachesPayer(doc) /\ ~StructurallyDeficient(doc)
        /\ UploadXml(doc)) =>
          /\ last'.outcome = "success"
          /\ \E i \in DOMAIN ctes' :
               /\ ctes'[i].xml_key = doc.Id
               /\ ctes'[i].total_value = Fin(0)
               /\ \E a \in DOMAIN audits' : audits'[a].cte_id = ctes'[i].id]_vars

(***************************************************************************)
(* Properties of the spreadsheet import on a store that may refuse an      *)
(* INSERT (SpecFaults).  A step with last'.op = "import" is a request; the *)
(* table_imports row of its file j has id Len(table_imports) + j.          *)
(***************************************************************************)
\* the import_errors rows of import importId
ErrorsOfImport(table, importId) ==
  { e \in DOMAIN table : table[e].import_id = importId }

\* the row runs an INSERT in its try block: the one of the error when a
\* required cell is missing, the one of the reconciliation otherwise
RunsInsert(row) == ~HasRequired(row) \/ Reconcilable(row)

\* an exception is raised while row i of the file is handled
Raises(file, i) == RunsInsert(file.data[i]) /\ file.faults[i] # NoFault

\* the exception raised at some row of the file leaves the transaction
Aborts(file) ==
  \E i \in DOMAIN file.data : RunsInsert(file.data[i]) /\ file.faults[i] = "catch"

\* the rows of the file that are reconciled and inserted
StoredRows(file) ==
  { i \in DOMAIN file.data :
      Reconcilable(file.data[i]) /\ file.faults[i] = NoFault }

RECURSIVE StoredCount(_, _)
\* the number of rows the files files[j..] insert into memory_calculations:
\* those of the readable files whose transaction is not aborted
StoredCount(files, j) ==
  IF j > Len(files) THEN 0
  ELSE (IF files[j].readable /\ ~Aborts(files[j])
        THEN Cardinality(StoredRows(files[j])) ELSE 0)
       + StoredCount(files, j + 1)

\* C21: for every file of an import that is readable and whose transaction
\* is not aborted, the table_imports row is no longer 'processing';
\* qty_imported is the number of rows inserted into memory_calculations for
\* the file, qty_total = qty_imported + qty_errors, and status is 'warning'
\* if an error was recorded for the file and 'success' otherwise.
C21_BatchUpdated ==
  [][last'.op = "import" =>
       /\ \A j \in DOMAIN last'.files :
            LET file == last'.files[j]
                rec == table_imports'[Len(table_imports) + j]
            IN (file.readable /\ ~Aborts(file)) =>
                 /\ rec.status # "processing"
                 /\ rec.qty_imported = Cardinality(StoredRows(file))
                 /\ rec.qty_total = rec.qty_imported + rec.qty_errors
                 /\ rec.status =
                      (IF ErrorsOfImport(import_errors', rec.id) # {}
                       THEN "warning" ELSE "success")
       /\ Len(Added(memory_calculations, memory_calculations'))
            = StoredCount(last'.files, 1)]_vars

\* C21 witness: an import of a file with one row in error and one row
\* reconciled (1 imported, 1 error, 2 in total, warning) and of a file with
\* two rows reconciled (2, 0, 2, success).
C21_Witness ==
  /\ last.op = "import"
  /\ \E i, j \in DOMAIN table_imports :
       /\ table_imports[i].status = "warning"
       /\ table_imports[i].qty_imported = 1 /\ table_imports[i].qty_errors = 1
       /\ table_imports[i].qty_total = 2
       /\ table_imports[j].status = "success"
       /\ table_imports[j].qty_imported = 2 /\ table_imports[j].qty_total = 2

\* C22: when the transaction of a file is aborted at a row, no row of
\* import_errors is stored for the file, the request adds to
\* memory_calculations the rows of its other files only, and the
\* table_imports row of the file stays 'processing' with zero counts; when
\* it is not aborted, the error rows and the reconciled rows of the file are
\* all stored.
C22_FileAtomic ==
  [][last'.op = "import" =>
       /\ \A j \in DOMAIN last'.files :
            LET file == last'.files[j]
                importId == Len(table_imports) + j
                rec == table_imports'[importId]
            IN file.readable =>
                 IF Aborts(file)
                 THEN /\ ErrorsOfImport(import_errors', importId) = {}
                      /\ rec.status = "processing"
                      /\ rec.qty_imported = 0 /\ rec.qty_errors = 0
                      /\ rec.qty_total = 0
                 ELSE /\ \A i \in DOMAIN file.data :
                           (~HasRequired(file.data[i]) \/ Raises(file, i)) =>
                              ErrorsOf(import_errors', importId, i + 1) # {}
                      /\ rec.qty_imported = Cardinality(StoredRows(file))
       /\ Len(Added(memory_calculations, memory_calculations'))
            = StoredCount(last'.files, 1)]_vars

\* C22 witness: a request whose second file was aborted at its third row,
\* after a row of it had been inserted: the two rows of the first file are
\* the only ones stored and the second table_imports row is 'processing'.
C22_Witness ==
  /\ last.op = "import" /\ Len(last.files) = 2
  /\ last.files[1].originalname = "a.xlsx"
  /\ last.files[2].originalname = "r.xlsx"
  /\ Len(table_imports) = 2 /\ table_imports[2].status = "processing"
  /\ Len(memory_calculations) = 2 /\ import_errors = <<>>

\* C23: for every row of an imported file at which an exception is raised,
\* the transaction of the file is not aborted; exactly one import_errors row
\* is stored for the row, with the message of the exception; qty_errors
\* counts the row once, next to the rows that lack a required cell; and the
\* other rows are processed and stored.
C23_RowExceptionCaught ==
  [][last'.op = "import" =>
       \A j \in DOMAIN last'.files :
         LET file == last'.files[j]
             importId == Len(table_imports) + j
             rec == table_imports'[importId]
             errored == { i \in DOMAIN file.data :
                            ~HasRequired(file.data[i]) \/ Raises(file, i) }
         IN (file.readable /\ \E i \in DOMAIN file.data : Raises(file, i)) =>
              /\ last'.results[j].status = "success"
              /\ rec.status = "warning"
              /\ \A i \in DOMAIN file.data :
                   Raises(file, i) =>
                     /\ Cardinality(ErrorsOf(import_errors', importId, i + 1)) = 1
                     /\ \A e \in ErrorsOf(import_errors', importId, i + 1) :
                          import_errors'[e].error_message = "Erro interno"
              /\ rec.qty_errors = Cardinality(errored)
              /\ rec.qty_imported = Cardinality(StoredRows(file))]_vars

\* C24: in a request of several files, the response has one entry for every
\* file, in order, 'error' for the files that are unreadable or whose
\* transaction is aborted and 'success' for the others; the rows stored by
\* earlier requests stay as they were; and every file that did not fail has
\* its table_imports row updated and its rows stored, whatever happened to
\* the files before and after it.
C24_FilesIsolated ==
  [][(last'.op = "import" /\ Len(last'.files) > 1) =>
       /\ Len(last'.results) = Len(last'.files)
       /\ Len(table_imports') = Len(table_imports) + Len(last'.files)
       /\ \A j \in DOMAIN last'.files :
            LET file == last'.files[j]
                rec == table_imports'[Len(table_imports) + j]
                failed == ~file.readable \/ Aborts(file)
            IN /\ last'.results[j].filename = file.originalname
               /\ last'.results[j].status = (IF failed THEN "error" ELSE "success")
               /\ rec.filename = file.originalname
               /\ ~failed =>
                    /\ rec.status \in {"success", "warning"}
                    /\ rec.qty_imported = Cardinality(StoredRows(file))
                    /\ \A i \in DOMAIN file.data :
                         ~HasRequired(file.data[i]) =>
                           ErrorsOf(import_errors', rec.id, i + 1) # {}
       /\ SubSeq(table_imports', 1, Len(table_imports)) = table_imports
       /\ SubSeq(memory_calculations', 1, Len(memory_calculations))
            = memory_calculations
       /\ SubSeq(import_errors', 1, Len(import_errors)) = import_errors
       /\ Len(Added(memory_calculations, memory_calculations'))
            = StoredCount(last'.files, 1)]_vars

\* C24 witness: a request whose first file was aborted and whose second file
\* was imported: an 'error' entry and a 'success' entry, and the rows of the
\* second file stored.
C24_Witness ==
  /\ last.op = "import" /\ Len(last.files) = 2
  /\ last.files[1].originalname = "r.xlsx"
  /\ last.files[2].originalname = "b.xlsx"
  /\ last.results[1].status = "error" /\ last.results[2].status = "success"
  /\ table_imports[1].status = "processing"
  /\ table_imports[2].status = "warning" /\ table_imports[2].qty_imported = 1
  /\ Len(memory_calculations) = 1 /\ Len(import_errors) = 1

\* C26: for every readable file of an import whose transaction is not
\* aborted, qty_total is the number of data rows of the file, and every row
\* has either one row in memory_calculations or one row in import_errors.
C26_EveryRowCounted ==
  [][last'.op = "import" =>
       /\ \A j \in DOMAIN last'.files :
            LET file == last'.files[j]
                rec == table_imports'[Len(table_imports) + j]
            IN (file.readable /\ ~Aborts(file)) =>
                 /\ rec.qty_total = Len(file.data)
                 /\ \A i \in DOMAIN file.data :
                      IF i \in StoredRows(file)
                      THEN ErrorsOf(import_errors', rec.id, i + 1) = {}
                      ELSE Cardinality(ErrorsOf(import_errors', rec.id, i + 1)) = 1
       /\ Len(Added(memory_calculations, memory_calculations'))
            = StoredCount(last'.files, 1)]_vars

\* C27: for every table_imports row in status 'success' or 'warning',
\* qty_errors is the number of import_errors rows stored for it.
C27_ErrorsCounted ==
  \A i \in DOMAIN table_imports :
    table_imports[i].status \in {"success", "warning"} =>
      table_imports[i].qty_errors
        = Cardinality(ErrorsOfImport(import_errors, table_imports[i].id))

(***************************************************************************)
(* Properties of the server from start-up on (SpecStartup).                *)
(***************************************************************************)
\* C25: when the initialization of the store failed, a request to the
\* health check is answered 'ok', and a request to any other route is
\* answered with the storage-unavailable status and changes no table.
C25_StorageUnavailable ==
  [][db # "ready" =>
       /\ last'.op = "health" => last'.outcome = "ok"
       /\ last'.op # "health" => last'.outcome = "unavailable"
       /\ store' = store]_vars

(***************************************************************************)
(* Properties of two requests at a time (SpecConcurrent).                  *)
(***************************************************************************)
\* the places in the history of request b of the documents of key k that
\* were handed to processXml
HandedOver(b, k) ==
  { i \in DOMAIN b.done : b.done[i].kind = "doc" /\ b.done[i].key = k }

\* the entry is the already-imported outcome for key k
IsDuplicate(result, k) ==
  ~result.success /\ result.xmlKey = k /\ result.message = "CT-e ja importado."

\* C28: when two requests that were served at the same time have both sent
\* their responses, for every key of which both handed a document to
\* processXml the store holds exactly one shipment row and exactly one audit
\* row, at most one of the entries of the two responses for the key is a
\* success, and every other entry for the key is the already-imported
\* outcome.
C28_ConcurrentBatches ==
  (batch.pc = "done" /\ waiting.pc = "done") =>
    \A k \in BatchKeys :
      (HandedOver(batch, k) # {} /\ HandedOver(waiting, k) # {}) =>
        /\ Cardinality(CtesOfKey(ctes, k)) = 1
        /\ \A c \in CtesOfKey(ctes, k) :
             Cardinality(AuditsOfCte(audits, ctes[c].id)) = 1
        /\ Cardinality({ i \in HandedOver(batch, k) : batch.results[i].success })
             + Cardinality({ i \in HandedOver(waiting, k) :
                               waiting.results[i].success }) <= 1
        /\ \A i \in HandedOver(batch, k) :
             batch.results[i].success \/ IsDuplicate(batch.results[i], k)
        /\ \A i \in HandedOver(waiting, k) :
             waiting.results[i].success \/ IsDuplicate(waiting.results[i], k)

(***************************************************************************)
(* Carriers that share a tax id (SpecAudit).                               *)
(***************************************************************************)
\* the carriers of the tenant with the tax id that have an active table
\* under the tenant
CarriersWithTable(cnpj, tenantId) ==
  { i \in CarrierRows(cnpj) :
      /\ carriers[i].tenant_id = tenantId
      /\ TableRows(tenantId, carriers[i].id) # {} }

C30_ListingsAgree ==
  /\ \A i \in AuditsDivergent \cup AuditsByStatusDivergent \cup Abonos :
       audits[i].divergence_type # Null
  /\ AuditsDivergent = AuditsByStatusDivergent
  /\ AuditsByStatusDivergent = Abonos

====
